---- MODULE Spec2Model ----
(***************************************************************************)
(* A model of lodash-up (src/src/index.js): a set of stateless mixins      *)
(* added to lodash.  Each function is an operator computed the way the     *)
(* JavaScript computes it; a call is an action that records the arguments  *)
(* and the outcome (a returned value or a thrown exception).               *)
(*                                                                         *)
(* JavaScript strings are sequences of one-character strings, so that      *)
(* formatting, parsing and regular-expression matching are computed and    *)
(* not assumed.                                                            *)
(***************************************************************************)
EXTENDS Integers, Sequences, FiniteSets, TLC

VARIABLES op, arg, res

vars == <<op, arg, res>>

\* The library keeps no state: before any call nothing is recorded.
Init ==
    /\ op = "idle"
    /\ arg = <<>>
    /\ res = <<>>

\* The caller takes the outcome; the next call starts from nothing.
Return ==
    /\ op # "idle"
    /\ op' = "idle"
    /\ arg' = <<>>
    /\ res' = <<>>

\* The outcome of a call that can throw: a returned value or an exception.
Returned(v) == [thrown |-> FALSE, value |-> v]

Thrown(e) == [thrown |-> TRUE, value |-> e]

(***************************************************************************)
(* Strings                                                                 *)
(***************************************************************************)
Digits == <<"0", "1", "2", "3", "4", "5", "6", "7", "8", "9">>

DigitSet == {Digits[i] : i \in 1..10}

DigitChar(d) == Digits[d + 1]

DigitVal(c) == (CHOOSE i \in 1..10 : Digits[i] = c) - 1

\* String(n) for a non-negative integer below 1e21: its decimal digits.
RECURSIVE NumToStr(_)
NumToStr(n) ==
    IF n < 10 THEN <<DigitChar(n)>>
    ELSE NumToStr(n \div 10) \o <<DigitChar(n % 10)>>

\* All strings over alphabet A of length at most n.
RECURSIVE StringsUpTo(_, _)
StringsUpTo(A, n) ==
    IF n = 0 THEN {<<>>}
    ELSE LET S == StringsUpTo(A, n - 1)
         IN  S \cup {Append(s, c) : s \in {t \in S : Len(t) = n - 1}, c \in A}

\* s.substr(from) and s.substr(0, n), positions counted from 0.
SubstrFrom(s, from) ==
    IF from >= Len(s) THEN <<>> ELSE SubSeq(s, from + 1, Len(s))

SubstrTo(s, n) ==
    IF n <= 0 THEN <<>> ELSE SubSeq(s, 1, IF n > Len(s) THEN Len(s) ELSE n)

\* s.slice(from, to) for 0 <= from.
Slice(s, from, to) ==
    LET e == IF to > Len(s) THEN Len(s) ELSE to
    IN  IF from >= e THEN <<>> ELSE SubSeq(s, from + 1, e)

\* parts.join(sep)
RECURSIVE Join(_, _)
Join(parts, sep) ==
    IF Len(parts) = 0 THEN <<>>
    ELSE IF Len(parts) = 1 THEN parts[1]
    ELSE parts[1] \o sep \o Join(Tail(parts), sep)

\* s.split(sep) for a one-character separator.
RECURSIVE SplitFrom(_, _, _)
SplitFrom(s, sep, cur) ==
    IF Len(s) = 0 THEN <<cur>>
    ELSE IF Head(s) = sep THEN <<cur>> \o SplitFrom(Tail(s), sep, <<>>)
    ELSE SplitFrom(Tail(s), sep, Append(cur, Head(s)))

Split(s, sep) == SplitFrom(s, sep, <<>>)

(***************************************************************************)
(* Time: strToSec, secToStr, msToStr                                       *)
(***************************************************************************)
MaxHour == 2

\* Hours at which the width of the hour field changes.
WideHours == {9, 10, 11, 99, 100, 101}

Undefined == <<"u", "n", "d", "e", "f", "i", "n", "e", "d">>

\* parseInt(s, 10): optional white space and sign, then the longest prefix
\* of decimal digits; NaN when there is none.
RECURSIVE ParseDigits(_, _, _)
ParseDigits(s, acc, seen) ==
    IF Len(s) > 0 /\ Head(s) \in DigitSet
    THEN ParseDigits(Tail(s), acc * 10 + DigitVal(Head(s)), TRUE)
    ELSE [nan |-> ~seen, v |-> acc]

RECURSIVE SkipSpaces(_)
SkipSpaces(s) ==
    IF Len(s) > 0 /\ Head(s) = " " THEN SkipSpaces(Tail(s)) ELSE s

ParseInt10(str) ==
    LET s == SkipSpaces(str)
    IN  IF Len(s) > 0 /\ Head(s) = "-"
        THEN LET p == ParseDigits(Tail(s), 0, FALSE)
             IN  [nan |-> p.nan, v |-> 0 - p.v]
        ELSE IF Len(s) > 0 /\ Head(s) = "+"
        THEN ParseDigits(Tail(s), 0, FALSE)
        ELSE ParseDigits(s, 0, FALSE)

\* x || 0 for a number x: NaN and 0 are falsy.
OrZero(p) == IF p.nan THEN 0 ELSE p.v

\* let [h, m, s] = parts: a missing element is undefined.
Destructure(parts, i) == IF i <= Len(parts) THEN parts[i] ELSE Undefined

strToSec(hms) ==
    LET parts == Split(hms, ":")
        h == OrZero(ParseInt10(Destructure(parts, 1)))
        m == OrZero(ParseInt10(Destructure(parts, 2)))
        s == OrZero(ParseInt10(Destructure(parts, 3)))
    IN  ((h * 3600) + (m * 60)) + s

\* A padding that keeps two characters only: ('0' + x).slice(-2).
Pad2_Slice(x) ==
    LET t == <<"0">> \o NumToStr(x) IN SubSeq(t, Len(t) - 1, Len(t))

\* if (x < 10) x = '0' + x; then `${x}`
Pad2(x) == IF x < 10 THEN <<"0">> \o NumToStr(x) ELSE NumToStr(x)

secToStr(sec0) ==
    LET sec == ParseInt10(NumToStr(sec0)).v
        h == sec \div 3600
        m == (sec - (h * 3600)) \div 60
        s == sec - (h * 3600) - (m * 60)
    IN  Pad2(h) \o <<":">> \o Pad2(m) \o <<":">> \o Pad2(s)

msToStr(ms) == secToStr(ParseInt10(NumToStr(ms)).v \div 1000)

\* The seconds the calls are made with: every value below MaxHour + 1 hours,
\* and every value of the hours in WideHours.
SecInputs ==
    (0..((MaxHour + 1) * 3600 - 1))
        \cup {h * 3600 + r : h \in WideHours, r \in 0..3599}

TimeAlphabet == {"0", "1", "7", ":", "x"}

MaxTimeLen == 4

StrToSecInputs == StringsUpTo(TimeAlphabet, MaxTimeLen)

MsInputs == {0, 999, 1000, 59999, 60000, 3599999, 3600000, 86400000}

\* strToSec(secToStr(b))
CallSecRoundTrip ==
    /\ op = "idle"
    /\ \E b \in SecInputs :
        /\ op' = "secToStr_strToSec"
        /\ arg' = b
        /\ res' = [str |-> secToStr(b), sec |-> strToSec(secToStr(b))]

CallStrToSec ==
    /\ op = "idle"
    /\ \E hms \in StrToSecInputs :
        /\ op' = "strToSec"
        /\ arg' = hms
        /\ res' = strToSec(hms)

CallMsToStr ==
    /\ op = "idle"
    /\ \E ms \in MsInputs :
        /\ op' = "msToStr"
        /\ arg' = ms
        /\ res' = msToStr(ms)

NextTime == CallSecRoundTrip \/ CallStrToSec \/ CallMsToStr \/ Return

SpecTime == Init /\ [][NextTime]_vars

\* C6: for every non-negative integer b, strToSec(secToStr(b)) = b, and
\* secToStr(b) is three fields of decimal digits separated by ':', each at
\* least two characters wide, the first being the unwrapped hour count.
C6_RoundTrip ==
    op = "secToStr_strToSec" =>
        /\ res.sec = arg
        /\ LET parts == Split(res.str, ":")
           IN  /\ Len(parts) = 3
               /\ \A i \in 1..3 :
                    /\ Len(parts[i]) >= 2
                    /\ \A j \in 1..Len(parts[i]) : parts[i][j] \in DigitSet
               /\ Len(parts[2]) = 2
               /\ Len(parts[3]) = 2
               /\ parts[1] = (IF arg < 36000 THEN <<"0">> ELSE <<>>)
                                \o NumToStr(arg \div 3600)

C6_Witness ==
    /\ op = "secToStr_strToSec"
    /\ arg = 100 * 3600 + 59 * 60 + 7
    /\ res.str = <<"1", "0", "0", ":", "5", "9", ":", "0", "7">>
    /\ res.sec = arg

(***************************************************************************)
(* ensureStartsWith, ensureEndsWith, insertStr                             *)
(***************************************************************************)
MaxEdgeLen == 3

MaxPosition == 2

EdgeAlphabet == {"x", "y"}

EdgeStrings == StringsUpTo(EdgeAlphabet, MaxEdgeLen)

Clamp(n, lo, hi) == IF n < lo THEN lo ELSE IF n > hi THEN hi ELSE n

\* _.startsWith(string, target, position): the position is clamped to the
\* string and the slice of the target's length starting there is compared.
startsWith(string, target, position) ==
    LET pos == Clamp(position, 0, Len(string))
    IN  Slice(string, pos, pos + Len(target)) = target

\* _.endsWith(string, target, position).  An optional argument is a sequence:
\* <<>> when it is undefined, <<p>> when it is given.
endsWith(string, target, position) ==
    LET end == IF position = <<>> THEN Len(string)
               ELSE Clamp(position[1], 0, Len(string))
        pos == end - Len(target)
    IN  pos >= 0 /\ Slice(string, pos, end) = target

\* An insertion that ignores the position and appends.
insertStr_Append(str, target, position) == str \o target

insertStr(str, target, position) ==
    SubstrTo(str, position) \o target \o SubstrFrom(str, position)

ensureStartsWith(str, target, position) ==
    IF startsWith(str, target, position) THEN str
    ELSE insertStr(str, target, position)

ensureEndsWith(str, target, position) ==
    IF endsWith(str, target, position) THEN str
    ELSE insertStr(str, target,
                   IF position = <<>> THEN Len(str) ELSE position[1])

\* ensureStartsWith(str, target, position), and the same call on its result.
CallEnsureStartsWith ==
    /\ op = "idle"
    /\ \E s \in EdgeStrings, t \in EdgeStrings, p \in 0..MaxPosition :
        /\ op' = "ensureStartsWith"
        /\ arg' = [str |-> s, target |-> t, position |-> p]
        /\ res' = [once  |-> ensureStartsWith(s, t, p),
                   twice |-> ensureStartsWith(ensureStartsWith(s, t, p), t, p)]

CallEnsureEndsWith ==
    /\ op = "idle"
    /\ \E s \in EdgeStrings, t \in EdgeStrings,
          p \in {<<>>} \cup {<<n>> : n \in 0..MaxPosition} :
        /\ op' = "ensureEndsWith"
        /\ arg' = [str |-> s, target |-> t, position |-> p]
        /\ res' = ensureEndsWith(s, t, p)

CallInsertStr ==
    /\ op = "idle"
    /\ \E s \in EdgeStrings, t \in EdgeStrings, p \in 0..(MaxEdgeLen + 1) :
        /\ op' = "insertStr"
        /\ arg' = [str |-> s, target |-> t, position |-> p]
        /\ res' = insertStr(s, t, p)

NextEdge == CallEnsureStartsWith \/ CallEnsureEndsWith \/ CallInsertStr \/ Return

SpecEdge == Init /\ [][NextEdge]_vars

\* t is a prefix of s.
IsPrefix(t, s) ==
    /\ Len(t) <= Len(s)
    /\ \A i \in 1..Len(t) : s[i] = t[i]

\* C7: at position 0, ensureStartsWith applied to its own result changes
\* nothing, the result starts with the target, and it is the string itself
\* when that already starts with the target and target + string otherwise.
C7_Idempotent ==
    (op = "ensureStartsWith" /\ arg.position = 0) =>
        /\ res.twice = res.once
        /\ IsPrefix(arg.target, res.once)
        /\ res.once = (IF IsPrefix(arg.target, arg.str) THEN arg.str
                       ELSE arg.target \o arg.str)

C7_Witness ==
    /\ op = "ensureStartsWith"
    /\ arg.position = 0
    /\ arg.str = <<"y", "x">>
    /\ arg.target = <<"x">>
    /\ res.once = <<"x", "y", "x">>
    /\ res.twice = res.once

(***************************************************************************)
(* Byte units: toByteUnits, toByteRateUnits                                *)
(*                                                                         *)
(* The ladder reaches 1024^4, beyond the 32-bit integers of TLC, so a byte  *)
(* count is a sequence of limbs in base 1024, least significant first,     *)
(* without leading zero limbs (<<>> is 0, <<512, 1>> is 1536).             *)
(***************************************************************************)
Kilo == 1024

MaxTopLimb == 2

RECURSIVE BigNorm(_)
BigNorm(a) ==
    IF Len(a) > 0 /\ a[Len(a)] = 0 THEN BigNorm(SubSeq(a, 1, Len(a) - 1))
    ELSE a

BigFromInt(n) == BigNorm(<<n % Kilo, (n \div Kilo) % Kilo, n \div (Kilo * Kilo)>>)

RECURSIVE BigToInt(_)
BigToInt(a) == IF Len(a) = 0 THEN 0 ELSE a[1] + Kilo * BigToInt(Tail(a))

\* a < b, for a and b of the same length: the most significant limb decides.
RECURSIVE LtLimbs(_, _)
LtLimbs(a, b) ==
    IF Len(a) = 0 THEN FALSE
    ELSE IF a[Len(a)] # b[Len(b)] THEN a[Len(a)] < b[Len(b)]
    ELSE LtLimbs(SubSeq(a, 1, Len(a) - 1), SubSeq(b, 1, Len(b) - 1))

\* a < b
BigLt(a, b) == IF Len(a) # Len(b) THEN Len(a) < Len(b) ELSE LtLimbs(a, b)

\* a * m + carry for a small m
RECURSIVE MulLimbs(_, _, _)
MulLimbs(a, m, carry) ==
    IF Len(a) = 0 THEN (IF carry = 0 THEN <<>> ELSE <<carry % Kilo, carry \div Kilo>>)
    ELSE LET v == a[1] * m + carry
         IN  <<v % Kilo>> \o MulLimbs(Tail(a), m, v \div Kilo)

BigMulSmall(a, m, carry) == BigNorm(MulLimbs(a, m, carry))

\* a + b + carry
RECURSIVE AddLimbs(_, _, _)
AddLimbs(a, b, carry) ==
    IF Len(a) = 0 /\ Len(b) = 0 THEN (IF carry = 0 THEN <<>> ELSE <<carry>>)
    ELSE LET x == IF Len(a) = 0 THEN 0 ELSE a[1]
             y == IF Len(b) = 0 THEN 0 ELSE b[1]
             v == x + y + carry
         IN  <<v % Kilo>>
                 \o AddLimbs(IF Len(a) = 0 THEN <<>> ELSE Tail(a),
                             IF Len(b) = 0 THEN <<>> ELSE Tail(b), v \div Kilo)

BigAdd(a, b, carry) == BigNorm(AddLimbs(a, b, carry))

\* Long division of a by a small d, from the most significant limb:
\* the quotient and the remainder.
RECURSIVE DivLimbs(_, _, _)
DivLimbs(a, d, rem) ==
    IF Len(a) = 0 THEN [q |-> <<>>, r |-> rem]
    ELSE LET v == rem * Kilo + a[Len(a)]
             rest == DivLimbs(SubSeq(a, 1, Len(a) - 1), d, v % d)
         IN  [q |-> Append(rest.q, v \div d), r |-> rest.r]

BigDivSmall(a, d, rem) ==
    LET x == DivLimbs(a, d, rem) IN [q |-> BigNorm(x.q), r |-> x.r]

\* 1024^k
RECURSIVE BigPow(_)
BigPow(k) == IF k = 0 THEN <<1>> ELSE <<0>> \o BigPow(k - 1)

\* floor(a / 1024^k)
BigShift(a, k) == IF k >= Len(a) THEN <<>> ELSE SubSeq(a, k + 1, Len(a))

\* String(b)
RECURSIVE BigToStr(_)
BigToStr(a) ==
    LET d == BigDivSmall(a, 10, 0)
    IN  IF Len(d.q) = 0 THEN <<DigitChar(d.r)>>
        ELSE BigToStr(d.q) \o <<DigitChar(d.r)>>

\* The digits of a decimal string as a number.
RECURSIVE BigParseDigits(_, _)
BigParseDigits(s, acc) ==
    IF Len(s) > 0 /\ Head(s) \in DigitSet
    THEN BigParseDigits(Tail(s), BigMulSmall(acc, 10, DigitVal(Head(s))))
    ELSE acc

\* Math.abs(parseInt(b, 10)) of an integer b = [neg, mag]: parseInt reads the
\* decimal text of b, sign included, and abs drops the sign.
AbsParseInt(b) ==
    LET text == (IF b.neg THEN <<"-">> ELSE <<>>) \o BigToStr(b.mag)
        body == IF Len(text) > 0 /\ Head(text) = "-" THEN Tail(text) ELSE text
    IN  BigParseDigits(body, <<>>)

\* (b / 1024^k).toFixed(2): the quotient is exact in a double (b < 2^53 and
\* the divisor is a power of two), and toFixed takes the integer n with
\* n / 100 closest to it, the larger of two: n = floor((200 b + 1024^k) /
\* (2 * 1024^k)); the text is n with a point before its last two digits.
ToFixed2(b, k) ==
    LET n == BigToInt(BigShift(BigAdd(BigMulSmall(b, 200, 0), BigPow(k), 0), k)) \div 2
    IN  NumToStr(n \div 100) \o <<".">>
            \o <<DigitChar((n % 100) \div 10), DigitChar(n % 10)>>

\* let def = [[1, 'byte'], [1024, 'KB'], ...]; def[i] is UnitThreshold(i)
\* and UnitLabel(i), i = 0..4.
UnitLabels == << <<"b", "y", "t", "e">>, <<"K", "B">>, <<"M", "B">>,
                 <<"G", "B">>, <<"T", "B">> >>

UnitLabel(i) == UnitLabels[i + 1]

UnitThreshold(i) == BigPow(i)

\* for (i = 0; i < def.length; i++) if (b < def[i][0] && def[i - 1]) return ...
\* and after the loop: b + ' byte' + (b > 1 ? 's' : '')
RECURSIVE UnitLoop(_, _)
UnitLoop(b, i) ==
    IF i >= Len(UnitLabels)
    THEN BigToStr(b) \o <<" ", "b", "y", "t", "e">>
            \o (IF BigLt(<<1>>, b) THEN <<"s">> ELSE <<>>)
    ELSE IF BigLt(b, UnitThreshold(i)) /\ i - 1 >= 0
    THEN ToFixed2(b, i - 1) \o <<" ">> \o UnitLabel(i - 1)
    ELSE UnitLoop(b, i + 1)

toByteUnits(b) == UnitLoop(AbsParseInt(b), 0)

toByteRateUnits(b) == toByteUnits(b) \o <<"/", "s">>

\* The byte counts the calls are made with: every count below 1024, and
\* counts of two to five limbs whose limbs are at the edges of a limb and in
\* its middle.
LimbSamples == {0, 1, 512, 1023}

RECURSIVE LowLimbs(_)
LowLimbs(n) ==
    IF n = 0 THEN {<<>>}
    ELSE {<<l>> \o r : l \in LimbSamples, r \in LowLimbs(n - 1)}

ByteMagnitudes ==
    {BigFromInt(n) : n \in 0..(Kilo - 1)}
        \cup UNION {{Append(low, top) : low \in LowLimbs(n), top \in 1..MaxTopLimb}
                    : n \in 1..4}

ByteInputs == {[neg |-> FALSE, mag |-> m] : m \in ByteMagnitudes}
                \cup {[neg |-> TRUE, mag |-> m] : m \in ByteMagnitudes \ {<<>>}}

CallToByteUnits ==
    /\ op = "idle"
    /\ \E b \in ByteInputs :
        /\ op' = "toByteUnits"
        /\ arg' = b
        /\ res' = toByteUnits(b)

CallToByteRateUnits ==
    /\ op = "idle"
    /\ \E b \in ByteInputs :
        /\ op' = "toByteRateUnits"
        /\ arg' = b
        /\ res' = toByteRateUnits(b)

NextBytes == CallToByteUnits \/ CallToByteRateUnits \/ Return

SpecBytes == Init /\ [][NextBytes]_vars

\* C2: for 0 <= b < 1024, toByteUnits(b) is the integer count without a
\* decimal part, followed by ' byte' when b <= 1 and ' bytes' when b > 1;
\* toByteUnits(1536) is '1.50 KB'.
C2_BelowKilo ==
    (op = "toByteUnits" /\ ~arg.neg) =>
        /\ Len(arg.mag) <= 1 =>
             res = NumToStr(BigToInt(arg.mag)) \o <<" ", "b", "y", "t", "e">>
                     \o (IF BigToInt(arg.mag) > 1 THEN <<"s">> ELSE <<>>)
        /\ arg.mag = <<512, 1>> => res = <<"1", ".", "5", "0", " ", "K", "B">>

\* The largest i in 1..4 with 1024^i <= b, for b >= 1024.
LargestUnit(b) == IF Len(b) > 5 THEN 4 ELSE Len(b) - 1

\* C8: for b >= 1024, toByteUnits(b) is b divided by the largest threshold
\* among 1024, 1024^2, 1024^3, 1024^4 that is <= b, with two decimals and
\* that unit's label (TB from 1024^4 on); toByteRateUnits(b) is the same text
\* followed by '/s'.
C8_UnitLadder ==
    (op \in {"toByteUnits", "toByteRateUnits"} /\ ~arg.neg /\ Len(arg.mag) >= 2) =>
        LET u == LargestUnit(arg.mag)
            text == ToFixed2(arg.mag, u) \o <<" ">> \o UnitLabel(u)
        IN  /\ ~BigLt(arg.mag, UnitThreshold(u))
            /\ (u < 4 => BigLt(arg.mag, UnitThreshold(u + 1)))
            /\ res = (IF op = "toByteUnits" THEN text ELSE text \o <<"/", "s">>)

(***************************************************************************)
(* checkSubject                                                            *)
(*                                                                         *)
(* String.prototype.search(x) with a string x searches for the regular     *)
(* expression new RegExp(x).  The patterns here are the ones the alphabet  *)
(* can spell: literal characters, '.' (any character) and a postfix '*'.   *)
(***************************************************************************)
MaxSubjectLen == 3

SubjectAlphabet == {"a", "A", "b", ".", "*"}

SubjectStrings == StringsUpTo(SubjectAlphabet, MaxSubjectLen)

\* The letters of the alphabets used here that have two cases; "E'" and
\* "e'" stand for the one-character strings E-acute and e-acute.
Upper == <<"A", "B", "E", "H", "W", "E'">>

Lower == <<"a", "b", "e", "h", "w", "e'">>

LowerChar(c) ==
    IF \E i \in 1..Len(Upper) : Upper[i] = c
    THEN Lower[CHOOSE i \in 1..Len(Upper) : Upper[i] = c]
    ELSE c

\* s.toLowerCase()
toLowerCase(s) == [i \in 1..Len(s) |-> LowerChar(s[i])]

\* new RegExp(p): the atoms of the pattern, each with its '*' flag; not ok
\* (a SyntaxError) when a '*' has nothing to repeat.
RECURSIVE RegExpAtoms(_)
RegExpAtoms(p) ==
    IF Len(p) = 0 THEN [ok |-> TRUE, atoms |-> <<>>]
    ELSE IF Head(p) = "*" THEN [ok |-> FALSE, atoms |-> <<>>]
    ELSE LET star == Len(p) > 1 /\ p[2] = "*"
             rest == RegExpAtoms(IF star THEN Tail(Tail(p)) ELSE Tail(p))
         IN  [ok |-> rest.ok,
              atoms |-> <<[c |-> Head(p), star |-> star]>> \o rest.atoms]

AtomMatches(atom, c) == atom.c = "." \/ atom.c = c

\* The atoms match a prefix of s.
RECURSIVE MatchesAt(_, _)
MatchesAt(atoms, s) ==
    IF Len(atoms) = 0 THEN TRUE
    ELSE IF atoms[1].star
    THEN \/ MatchesAt(Tail(atoms), s)
         \/ (Len(s) > 0 /\ AtomMatches(atoms[1], s[1]) /\ MatchesAt(atoms, Tail(s)))
    ELSE Len(s) > 0 /\ AtomMatches(atoms[1], s[1]) /\ MatchesAt(Tail(atoms), Tail(s))

\* s.search(p): the first index where the pattern matches, -1 when none.
search(s, atoms) ==
    LET hits == {i \in 0..Len(s) : MatchesAt(atoms, SubstrFrom(s, i))}
    IN  IF hits = {} THEN -1 ELSE CHOOSE i \in hits : \A j \in hits : i <= j

checkSubject(subject, input) ==
    IF subject = input THEN Returned(TRUE)
    ELSE IF Len(input) = 0 THEN Returned(FALSE)
    ELSE LET rx == RegExpAtoms(toLowerCase(input))
         IN  IF ~rx.ok THEN Thrown("SyntaxError")
             ELSE Returned(search(toLowerCase(subject), rx.atoms) # -1)

CallCheckSubject ==
    /\ op = "idle"
    /\ \E subject \in SubjectStrings, input \in SubjectStrings :
        /\ op' = "checkSubject"
        /\ arg' = [subject |-> subject, input |-> input]
        /\ res' = checkSubject(subject, input)

NextSubject == CallCheckSubject \/ Return

SpecSubject == Init /\ [][NextSubject]_vars

\* t occurs in s as a contiguous run of the same characters.
IsSubstring(t, s) ==
    \E i \in 0..(Len(s) - Len(t)) : SubSeq(s, i + 1, i + Len(t)) = t

\* C3: checkSubject(subject, input) returns a boolean, true exactly when the
\* two strings are equal or input is not empty and its lower-cased text
\* occurs literally in the lower-cased subject.
C3_LiteralSubstring ==
    op = "checkSubject" =>
        /\ ~res.thrown
        /\ res.value =
             (\/ arg.subject = arg.input
              \/ /\ Len(arg.input) > 0
                 /\ IsSubstring(toLowerCase(arg.input), toLowerCase(arg.subject)))

(***************************************************************************)
(* getErrorMessage                                                         *)
(*                                                                         *)
(* A JavaScript value is [t, s, n, f]: its type tag, the text of a string,  *)
(* the value of a number and the own properties of an object.              *)
(***************************************************************************)
UndefinedValue == [t |-> "undefined", s |-> <<>>, n |-> 0, f |-> <<>>]

NullValue == [t |-> "null", s |-> <<>>, n |-> 0, f |-> <<>>]

StringValue(s) == [t |-> "string", s |-> s, n |-> 0, f |-> <<>>]

NumberValue(n) == [t |-> "number", s |-> <<>>, n |-> n, f |-> <<>>]

ObjectValue(f) == [t |-> "object", s |-> <<>>, n |-> 0, f |-> f]

\* typeof v === 'object'
TypeofObject(v) == v.t \in {"object", "null"}

\* if (v)
Truthy(v) ==
    CASE v.t = "undefined" -> FALSE
      [] v.t = "null"      -> FALSE
      [] v.t = "string"    -> Len(v.s) > 0
      [] v.t = "number"    -> v.n # 0
      [] OTHER             -> TRUE

\* v.k throws a TypeError when v is null or undefined.
CanRead(v) == v.t \notin {"null", "undefined"}

\* v.k for a v that can be read: an absent property, and any of these
\* properties of a string or a number, is undefined.
Get(v, k) ==
    IF v.t = "object" /\ k \in DOMAIN v.f THEN v.f[k] ELSE UndefinedValue

\* The steps after the res.data block: statusText, status, res itself.
StatusOrSelf(r) ==
    IF Truthy(Get(r, "statusText")) THEN Returned(Get(r, "statusText"))
    ELSE IF Truthy(Get(r, "status")) THEN Returned(Get(r, "status"))
    ELSE Returned(r)

getErrorMessage(r) ==
    IF ~TypeofObject(r) THEN Returned(r)
    ELSE IF ~CanRead(r) THEN Thrown("TypeError")
    ELSE IF Truthy(Get(r, "message")) THEN Returned(Get(r, "message"))
    ELSE LET d == Get(r, "data")
             e == Get(d, "error")
         IN  IF ~Truthy(d) THEN StatusOrSelf(r)
             ELSE IF Truthy(Get(d, "message")) THEN Returned(Get(d, "message"))
             ELSE IF e.t = "string" THEN Returned(e)
             ELSE IF TypeofObject(e) /\ ~CanRead(e) THEN Thrown("TypeError")
             ELSE IF TypeofObject(e) /\ Truthy(Get(e, "message"))
             THEN Returned(Get(e, "message"))
             ELSE StatusOrSelf(r)

\* The objects with each property absent or one of the given values.
Objects(fields, vals) ==
    UNION {{ObjectValue(f) : f \in {g \in [D -> UNION {vals[k] : k \in D}] :
                                      \A k \in D : g[k] \in vals[k]}}
           : D \in SUBSET fields}

Boom == <<"b", "o", "o", "m">>

NotFound == <<"N", "o", "t", " ", "F", "o", "u", "n", "d">>

ErrorObjects ==
    Objects({"message"}, [message |-> {StringValue(Boom), StringValue(<<>>)}])

DataObjects ==
    Objects({"message", "error"},
            [message |-> {StringValue(<<"d", "m">>)},
             error   |-> {NullValue, StringValue(<<"d", "e">>)} \cup ErrorObjects])

ResponseObjects ==
    Objects({"message", "data", "statusText", "status"},
            [message    |-> {StringValue(<<"m">>), StringValue(<<>>)},
             data       |-> {NullValue, StringValue(<<"r", "a", "w">>)}
                                \cup DataObjects,
             statusText |-> {StringValue(NotFound)},
             status     |-> {NumberValue(0), NumberValue(404)}])

ErrorInputs ==
    {UndefinedValue, NullValue, StringValue(<<"o", "o", "p", "s">>),
     StringValue(<<>>), NumberValue(500), NumberValue(0)} \cup ResponseObjects

CallGetErrorMessage ==
    /\ op = "idle"
    /\ \E r \in ErrorInputs :
        /\ op' = "getErrorMessage"
        /\ arg' = r
        /\ res' = getErrorMessage(r)

NextError == CallGetErrorMessage \/ Return

SpecError == Init /\ [][NextError]_vars

\* One of the probed fields of an object resolves: message, data.message,
\* data.error (a string), data.error.message, statusText, status.
Resolves(r) ==
    /\ r.t = "object"
    /\ \/ Truthy(Get(r, "message"))
       \/ Truthy(Get(r, "statusText"))
       \/ Truthy(Get(r, "status"))
       \/ /\ Truthy(Get(r, "data"))
          /\ \/ Truthy(Get(Get(r, "data"), "message"))
             \/ Get(Get(r, "data"), "error").t = "string"
             \/ Truthy(Get(Get(Get(r, "data"), "error"), "message"))

\* C4: getErrorMessage(res) never throws; it returns a value for every
\* input, and res itself when none of the probed fields resolves.
C4_NeverThrows ==
    op = "getErrorMessage" =>
        /\ ~res.thrown
        /\ ~Resolves(arg) => res.value = arg

(***************************************************************************)
(* slugify                                                                 *)
(*                                                                         *)
(* The regular expressions slugify builds are [a-z0-9] with a quantifier,  *)
(* possibly followed by literal text: a pattern is [lo, hi, lit], hi = 0   *)
(* standing for no upper limit.  In '[a-z0-9]{,3}' the braces are not a    *)
(* quantifier (a quantifier needs its lower number), so the pattern is one *)
(* character of the class followed by the four characters '{,3}'.          *)
(***************************************************************************)
MaxSlugLen == 3

MaxSlugArg == 2

SlugClass == {"a", "b", "d", "e", "h", "l", "o", "r", "w"} \cup DigitSet

\* _.deburr(s): Latin-1 letters become basic Latin letters.
DeburrChar(c) == IF c = "e'" THEN "e" ELSE IF c = "E'" THEN "E" ELSE c

deburr(s) == [i \in 1..Len(s) |-> DeburrChar(s[i])]

\* The length of the run of class characters of s from index i (from 0).
RECURSIVE RunLength(_, _)
RunLength(s, i) ==
    IF i < Len(s) /\ s[i + 1] \in SlugClass THEN 1 + RunLength(s, i + 1) ELSE 0

\* The length of the match of rx at index i, -1 when there is none: the
\* longest count of class characters within the quantifier after which the
\* literal text follows.
MatchLength(rx, s, i) ==
    LET run  == RunLength(s, i)
        most == IF rx.hi = 0 \/ run < rx.hi THEN run ELSE rx.hi
        ks   == {k \in rx.lo..most :
                    Slice(s, i + k, i + k + Len(rx.lit)) = rx.lit}
    IN  IF ks = {} THEN -1
        ELSE (CHOOSE k \in ks : \A j \in ks : j <= k) + Len(rx.lit)

\* s.match(rx) || [] for a global rx: the matches from left to right.
RECURSIVE MatchAll(_, _, _)
MatchAll(rx, s, i) ==
    IF i >= Len(s) THEN <<>>
    ELSE LET n == MatchLength(rx, s, i)
         IN  IF n <= 0 THEN MatchAll(rx, s, i + 1)
             ELSE <<Slice(s, i, i + n)>> \o MatchAll(rx, s, i + n)

\* _.words(string, pattern)
words(s, rx) == MatchAll(rx, s, 0)

\* An optional numeric argument.
NumberArgs == {UndefinedValue, NullValue} \cup {NumberValue(n) : n \in 0..MaxSlugArg}

\* new RegExp('[a-z0-9]{,' + max + '}', 'g')
MaxOnlyPattern(max) ==
    [lo |-> 1, hi |-> 1, lit |-> <<"{", ",">> \o NumToStr(max.n) \o <<"}">>]

slugify(str, min, max) ==
    IF Len(str) = 0 THEN Returned(<<>>)
    ELSE LET text == deburr(toLowerCase(str))
         IN  IF ~Truthy(min) /\ ~Truthy(max)
             THEN Returned(Join(words(text, [lo |-> 1, hi |-> 0, lit |-> <<>>]), <<"-">>))
             ELSE IF Truthy(min) /\ Truthy(max)
             THEN IF min.n > max.n THEN Thrown("SyntaxError")
                  ELSE Returned(Join(words(text,
                          [lo |-> min.n, hi |-> max.n, lit |-> <<>>]), <<"-">>))
             ELSE IF Truthy(min) /\ ~Truthy(max)
             THEN Returned(Join(words(text,
                          [lo |-> min.n, hi |-> 0, lit |-> <<>>]), <<"-">>))
             ELSE IF min.t = "null" /\ Truthy(max)
             THEN Returned(Join(words(text, MaxOnlyPattern(max)), <<"-">>))
             ELSE Thrown("RangeError")

SlugAlphabet == {"a", "H", "e'", " ", "2"}

HelloWorld == <<"H", "e'", "l", "l", "o", " ", "W", "o", "r", "l", "d", "!">>

SlugInputs ==
    StringsUpTo(SlugAlphabet, MaxSlugLen)
        \cup {HelloWorld,
              <<"a", "{", ",", "2", "}">>,
              <<"H", "{", ",", "1", "}", " ", "a", "{", ",", "2", "}">>}

CallSlugify ==
    /\ op = "idle"
    /\ \E str \in SlugInputs, min \in NumberArgs, max \in NumberArgs :
        /\ op' = "slugify"
        /\ arg' = [str |-> str, min |-> min, max |-> max]
        /\ res' = slugify(str, min, max)

NextSlug == CallSlugify \/ Return

SpecSlug == Init /\ [][NextSlug]_vars

\* The runs of class characters of s cut into pieces of at most max
\* characters, from left to right; cur is the piece being read.
RECURSIVE Pieces(_, _, _)
Pieces(s, max, cur) ==
    IF Len(s) = 0 THEN (IF Len(cur) = 0 THEN <<>> ELSE <<cur>>)
    ELSE IF Head(s) \notin SlugClass
    THEN (IF Len(cur) = 0 THEN <<>> ELSE <<cur>>) \o Pieces(Tail(s), max, <<>>)
    ELSE IF Len(cur) = max
    THEN <<cur>> \o Pieces(Tail(s), max, <<Head(s)>>)
    ELSE Pieces(Tail(s), max, Append(cur, Head(s)))

\* C5: for a non-empty str and a positive max, slugify(str, null, max) is
\* the runs of [a-z0-9] of at most max characters of the lower-cased text
\* without diacritics, joined with '-': every piece of the result has 1 to
\* max characters, all of [a-z0-9].
C5_MaxOnly ==
    (op = "slugify" /\ Len(arg.str) > 0 /\ arg.min.t = "null"
        /\ arg.max.t = "number" /\ arg.max.n > 0) =>
        /\ ~res.thrown
        /\ res.value = Join(Pieces(deburr(toLowerCase(arg.str)), arg.max.n, <<>>),
                            <<"-">>)
        /\ \A i \in 1..Len(res.value) : res.value[i] \in SlugClass \cup {"-"}

(***************************************************************************)
(* placeholder                                                             *)
(***************************************************************************)
MaxTemplateLen == 4

TemplateAlphabet == {"{", "}", "n", "_", " "}

\* \w, over the alphabets used here
WordChars == {"n", "_", "a", "m", "e", "H", "i"} \cup DigitSet

\* String(v) for a string or a non-negative number.
ToText(v) == IF v.t = "number" THEN NumToStr(v.n) ELSE v.s

\* The length of the run of word characters of s from index i (from 0).
RECURSIVE WordRun(_, _)
WordRun(s, i) ==
    IF i < Len(s) /\ s[i + 1] \in WordChars THEN 1 + WordRun(s, i + 1) ELSE 0

\* The length of the match of /\{(\w+)\}/ at index i, 0 when there is none.
\* No word character is a brace, so only the whole run can precede the '}'.
TokenLength(s, i) ==
    IF i < Len(s) /\ s[i + 1] = "{"
    THEN LET run == WordRun(s, i + 1)
         IN  IF run >= 1 /\ i + 1 + run < Len(s) /\ s[i + run + 2] = "}"
             THEN run + 2 ELSE 0
    ELSE 0

\* (match, p) => params[p] || p, as text
Replacement(params, p) ==
    IF params.t = "object" /\ Truthy(Get(params, p)) THEN ToText(Get(params, p))
    ELSE p

\* A replace without the g flag: the first token only.
RECURSIVE ReplaceFirst(_, _, _)
ReplaceFirst(s, params, i) ==
    IF i >= Len(s) THEN <<>>
    ELSE LET n == TokenLength(s, i)
         IN  IF n = 0 THEN <<s[i + 1]>> \o ReplaceFirst(s, params, i + 1)
             ELSE Replacement(params, Slice(s, i + 1, i + n - 1))
                      \o SubstrFrom(s, i + n)

\* str.replace(rxPlaceholder, f): every match from left to right, the
\* replacement text not being scanned again.
RECURSIVE ReplaceAll(_, _, _)
ReplaceAll(s, params, i) ==
    IF i >= Len(s) THEN <<>>
    ELSE LET n == TokenLength(s, i)
         IN  IF n = 0 THEN <<s[i + 1]>> \o ReplaceAll(s, params, i + 1)
             ELSE Replacement(params, Slice(s, i + 1, i + n - 1))
                      \o ReplaceAll(s, params, i + n)

placeholder(str, params) ==
    IF Truthy(params) THEN ReplaceAll(str, params, 0) ELSE str

Amy == <<"A", "m", "y">>

HiName == <<"H", "i", " ", "{", "n", "a", "m", "e", "}">>

\* The params of the calls: omitted, null, an empty string, a number, and
\* objects whose values are strings (one empty, one holding a token) and
\* numbers (one zero).
ParamsInputs ==
    {UndefinedValue, NullValue, StringValue(<<>>), NumberValue(1),
     ObjectValue(<<>>),
     ObjectValue([x \in {<<"n">>} |-> StringValue(Amy)]),
     ObjectValue([x \in {<<"n">>} |-> StringValue(<<>>)]),
     ObjectValue([x \in {<<"n">>} |-> NumberValue(0)]),
     ObjectValue([x \in {<<"n">>, <<"_">>} |->
                    IF x = <<"n">> THEN NumberValue(42)
                    ELSE StringValue(<<"{", "n", "}">>)]),
     ObjectValue([x \in {<<"n", "n">>, <<"n", "a", "m", "e">>} |-> StringValue(Amy)])}

TemplateInputs ==
    StringsUpTo(TemplateAlphabet, MaxTemplateLen)
        \cup {HiName, <<"{", "n", "}", "{", "_", "}", "{", "n", "}">>}

CallPlaceholder ==
    /\ op = "idle"
    /\ \E str \in TemplateInputs, params \in ParamsInputs :
        /\ op' = "placeholder"
        /\ arg' = [str |-> str, params |-> params]
        /\ res' = placeholder(str, params)

NextPlaceholder == CallPlaceholder \/ Return

SpecPlaceholder == Init /\ [][NextPlaceholder]_vars

\* s[i..j] is a token: '{', one or more word characters, '}'.
IsToken(s, i, j) ==
    /\ i + 1 < j
    /\ s[i] = "{"
    /\ s[j] = "}"
    /\ \A k \in (i + 1)..(j - 1) : s[k] \in WordChars

RECURSIVE Flatten(_)
Flatten(parts) == IF Len(parts) = 0 THEN <<>> ELSE Head(parts) \o Flatten(Tail(parts))

\* The substitution read position by position: the text
\* of the value (or the identifier) where a token starts, nothing inside a
\* token, the character itself elsewhere.
Substituted(s, params) ==
    Flatten([i \in 1..Len(s) |->
        IF \E j \in 1..Len(s) : IsToken(s, i, j)
        THEN LET j == CHOOSE j \in 1..Len(s) : IsToken(s, i, j)
                 id == SubSeq(s, i + 1, j - 1)
                 v == IF params.t = "object" /\ id \in DOMAIN params.f
                      THEN params.f[id] ELSE UndefinedValue
             IN  IF Truthy(v) THEN ToText(v) ELSE id
        ELSE IF \E a \in 1..i, b \in i..Len(s) : a < i /\ IsToken(s, a, b)
        THEN <<>>
        ELSE <<s[i]>>])

\* C9: with a truthy params every token {identifier} becomes the value of
\* params[identifier] when that is truthy and the bare identifier otherwise,
\* the rest of the text being kept; with params omitted or falsy the string
\* is returned as it is.  'Hi {name}' gives 'Hi Amy' with {name: 'Amy'} and
\* 'Hi name' with {}.
C9_Placeholder ==
    op = "placeholder" =>
        /\ Truthy(arg.params) => res = Substituted(arg.str, arg.params)
        /\ ~Truthy(arg.params) => res = arg.str
        /\ (arg.str = HiName /\ arg.params = ObjectValue(<<>>)) =>
                res = <<"H", "i", " ", "n", "a", "m", "e">>
        /\ (arg.str = HiName /\ arg.params.t = "object"
                /\ <<"n", "a", "m", "e">> \in DOMAIN arg.params.f) =>
                res = <<"H", "i", " ", "A", "m", "y">>

C9_Witness ==
    /\ op = "placeholder"
    /\ arg.str = <<"{", "n", "}", "{", "_", "}", "{", "n", "}">>
    /\ arg.params.t = "object"
    /\ DOMAIN arg.params.f = {<<"n">>, <<"_">>}
    /\ res = <<"4", "2", "{", "n", "}", "4", "2">>

(***************************************************************************)
(* mergeRecursive                                                          *)
(*                                                                         *)
(* Objects live in a heap: an address maps to the object's own properties, *)
(* and a property holds a number or the address of an object, so that two  *)
(* properties holding the same object are seen to do so.                   *)
(***************************************************************************)
Keys == {"a", "b"}

\* for (p in obj) visits the own keys of obj in their order of insertion.
KeyOrder == <<"a", "b">>

Leaves == {0, 1}

\* A property of an object: absent, a number, or the address of an object.
\* An object maps every key to one of these.
Absent == [kind |-> "absent", v |-> 0]

Leaf(n) == [kind |-> "number", v |-> n]

Ref(a) == [kind |-> "object", v |-> a]

EmptyObject == [k \in Keys |-> Absent]

\* target[p] && typeof target[p] === 'object'
IsObject(x) == x.kind = "object"

EnumKeys(obj) == SelectSeq(KeyOrder, LAMBDA k : obj[k] # Absent)

\* obj[p] = x
Store(h, a, p, x) == [h EXCEPT ![a][p] = x]

\* The sources taken from the last to the first.
RECURSIVE Reversed(_)
Reversed(q) == IF Len(q) = 0 THEN <<>> ELSE Append(Reversed(Tail(q)), Head(q))

RECURSIVE MergeKeys(_, _, _, _)
RECURSIVE MergeSources(_, _, _)

\* The body of `for (let p in arguments[i])` for the keys ks still to visit:
\* s is arguments[i], a number (no keys) or the address of an object.
MergeKeys(h, t, s, ks) ==
    IF Len(ks) = 0 THEN h
    ELSE LET p == Head(ks)
         IN  IF IsObject(h[t][p])
             THEN LET child == h[t][p]
                      h1 == MergeSources(h, child.v, <<h[s.v][p]>>)
                  IN  MergeKeys(Store(h1, t, p, child), t, s, Tail(ks))
             ELSE MergeKeys(Store(h, t, p, h[s.v][p]), t, s, Tail(ks))

\* for (let i = 1; i < ln; i++) ...
MergeSources(h, t, srcs) ==
    IF Len(srcs) = 0 THEN h
    ELSE LET s == Head(srcs)
             ks == IF IsObject(s) THEN EnumKeys(h[s.v]) ELSE <<>>
         IN  MergeSources(MergeKeys(h, t, s, ks), t, Tail(srcs))

\* A merge that applies the sources from the last to the first.
mergeRecursive_Reversed(h, t, srcs) ==
    IF 1 + Len(srcs) < 2 THEN [thrown |-> TRUE, value |-> 0, heap |-> h]
    ELSE [thrown |-> FALSE, value |-> t, heap |-> MergeSources(h, t, Reversed(srcs))]

\* _.mergeRecursive(target, ...sources) on heap h: whether it throws (with
\* fewer than two arguments), the address it returns and the heap it leaves.
mergeRecursive(h, t, srcs) ==
    IF 1 + Len(srcs) < 2 THEN [thrown |-> TRUE, value |-> 0, heap |-> h]
    ELSE [thrown |-> FALSE, value |-> t, heap |-> MergeSources(h, t, srcs)]

\* The arguments of a call are object literals: the target at address 1, the
\* sources at 2 and 3, each property absent, a number, or an object of its
\* own (at ChildAddr) that is empty or has one numeric property.
NestedObjects ==
    {EmptyObject} \cup {[EmptyObject EXCEPT ![k] = Leaf(n)] : k \in Keys, n \in Leaves}

Slots ==
    {[kind |-> "absent", v |-> 0, o |-> EmptyObject]}
        \cup {[kind |-> "number", v |-> n, o |-> EmptyObject] : n \in Leaves}
        \cup {[kind |-> "object", v |-> 0, o |-> o] : o \in NestedObjects}

Layouts == [Keys -> Slots]

EmptyLayout == [k \in Keys |-> [kind |-> "absent", v |-> 0, o |-> EmptyObject]]

KeyIndex(k) == CHOOSE i \in 1..Len(KeyOrder) : KeyOrder[i] = k

Roots == 1..3

ChildAddr(base, k) == 3 + (base - 1) * Len(KeyOrder) + KeyIndex(k)

\* The heap holding the three literals: the roots, then their nested objects.
HeapOf(layouts) ==
    [a \in Roots |->
        [k \in Keys |->
            IF layouts[a][k].kind = "object" THEN Ref(ChildAddr(a, k))
            ELSE [kind |-> layouts[a][k].kind, v |-> layouts[a][k].v]]]
    \o [i \in 1..(3 * Len(KeyOrder)) |->
            layouts[1 + ((i - 1) \div Len(KeyOrder))]
                   [KeyOrder[1 + ((i - 1) % Len(KeyOrder))]].o]

\* mergeRecursive(target), mergeRecursive(target, s1), mergeRecursive(target, s1, s2)
CallMergeRecursive ==
    /\ op = "idle"
    /\ \E n \in 0..2 :
       \E t \in Layouts,
          s1 \in IF n >= 1 THEN Layouts ELSE {EmptyLayout},
          s2 \in IF n >= 2 THEN Layouts ELSE {EmptyLayout} :
        LET h == HeapOf(<<t, s1, s2>>)
            srcs == [i \in 1..n |-> Ref(1 + i)]
        IN  /\ op' = "mergeRecursive"
            /\ arg' = [heap |-> h, target |-> 1, sources |-> srcs]
            /\ res' = mergeRecursive(h, 1, srcs)

NextMerge == CallMergeRecursive \/ Return

SpecMerge == Init /\ [][NextMerge]_vars

\* The objects reachable from the addresses in S.
RECURSIVE Reachable(_, _)
Reachable(h, S) ==
    LET more == S \cup UNION {{h[a][k].v : k \in {x \in Keys : IsObject(h[a][x])}}
                               : a \in S}
    IN  IF more = S THEN S ELSE Reachable(h, more)

SourceObjects == Reachable(arg.heap, {arg.sources[i].v : i \in 1..Len(arg.sources)})

\* C1: mergeRecursive changes the target only: every source, and every
\* object nested in a source, has the same keys and values after the call
\* as before it.
C1_SourcesUnchanged ==
    (op = "mergeRecursive" /\ ~res.thrown) =>
        \A a \in SourceObjects : res.heap[a] = arg.heap[a]

\* The sources, in argument order, that have key k before the call.
SourcesWith(k) ==
    SelectSeq(arg.sources, LAMBDA x : arg.heap[x.v][k] # Absent)

\* What a single source s makes of the object at address t, by the rule
\* "replace what is absent or not an object, merge into an object": post is
\* the heap after, pre the heap before.
RECURSIVE Overlaid(_, _, _, _)
Overlaid(pre, post, t, s) ==
    IF ~IsObject(s) THEN post[t] = pre[t]
    ELSE \A k \in Keys :
            LET old == pre[t][k]
                new == pre[s.v][k]
            IN  IF new = Absent THEN post[t][k] = old
                ELSE IF IsObject(old)
                THEN post[t][k] = old /\ Overlaid(pre, post, old.v, new)
                ELSE post[t][k] = new

\* x in heap h and y in heap g are the same number, or objects with the same
\* keys and values.
SameValue(h, x, g, y) ==
    /\ x.kind = y.kind
    /\ IF IsObject(x) THEN h[x.v] = g[y.v] ELSE x.v = y.v

\* C10 as stated: the call returns its target and, for every key whose slot
\* in the target is absent or a number before the call, the final
\* target[key] is the value given by the last source that has the key.
C10_LastSourceWins ==
    (op = "mergeRecursive" /\ ~res.thrown) =>
        /\ res.value = arg.target
        /\ \A k \in Keys :
            (~IsObject(arg.heap[arg.target][k]) /\ Len(SourcesWith(k)) > 0) =>
                LET last == SourcesWith(k)[Len(SourcesWith(k))]
                IN  SameValue(res.heap, res.heap[arg.target][k],
                              arg.heap, arg.heap[last.v][k])

\* C10, amended: the call returns its target; a single source is overlaid by
\* the rule (replace what is absent or not an object, merge recursively into
\* an object); several sources act as single-source calls made in argument
\* order; and for a key whose slot in the target is absent or a number
\* before the call, the final target[key] is the value given by the last
\* source that has the key, provided every earlier source that has the key
\* gives a non-object value for it.
C10_SequentialOverlay ==
    (op = "mergeRecursive" /\ ~res.thrown) =>
        /\ res.value = arg.target
        /\ Len(arg.sources) = 1 =>
                Overlaid(arg.heap, res.heap, arg.target, arg.sources[1])
        /\ Len(arg.sources) = 2 =>
                res.heap = mergeRecursive(
                               mergeRecursive(arg.heap, arg.target,
                                              <<arg.sources[1]>>).heap,
                               arg.target, <<arg.sources[2]>>).heap
        /\ \A k \in Keys :
            LET with == SourcesWith(k)
            IN  (/\ ~IsObject(arg.heap[arg.target][k])
                 /\ Len(with) > 0
                 /\ \A i \in 1..(Len(with) - 1) : ~IsObject(arg.heap[with[i].v][k])) =>
                    /\ res.heap[arg.target][k] = arg.heap[with[Len(with)].v][k]
                    /\ SameValue(res.heap, res.heap[arg.target][k],
                                 arg.heap, arg.heap[with[Len(with)].v][k])

\* Two sources give key a different numbers, the later one wins; both give
\* key b where the target holds an object, which is merged into.
C10_Witness ==
    /\ op = "mergeRecursive"
    /\ ~res.thrown
    /\ Len(arg.sources) = 2
    /\ arg.heap[1]["a"] = Absent
    /\ arg.heap[2]["a"] = Leaf(0)
    /\ arg.heap[3]["a"] = Leaf(1)
    /\ res.heap[1]["a"] = Leaf(1)
    /\ IsObject(arg.heap[1]["b"])
    /\ arg.heap[arg.heap[1]["b"].v] = EmptyObject
    /\ IsObject(arg.heap[2]["b"])
    /\ arg.heap[3]["b"] = Leaf(1)
    /\ res.heap[1]["b"] = arg.heap[1]["b"]
    /\ res.heap[arg.heap[1]["b"].v] = [EmptyObject EXCEPT !["a"] = Leaf(1)]

(***************************************************************************)
(* All the functions together.                                             *)
(***************************************************************************)
Next ==
    \/ NextTime
    \/ NextEdge
    \/ NextBytes
    \/ NextSubject
    \/ NextError
    \/ NextSlug
    \/ NextPlaceholder
    \/ NextMerge

Spec == Init /\ [][Next]_vars

====
